---- MODULE Spec2Model ----
(***************************************************************************)
(* A model of EnvironmentContext (src/classes/environment-context.js):     *)
(* host detection and inventory parsing at construction, the lazily        *)
(* resolved and memoized accessors backed by the credential file, the      *)
(* credential file writers, and the local / remote routing of commands.    *)
(*                                                                         *)
(* Strings are sequences of atoms.  An atom is a run of characters that    *)
(* the code only ever handles whole (a key name such as "user", a host     *)
(* name, a path, a fixed command word); the delimiters the code splits or  *)
(* searches on ("=", ":", "\n", "__SOURCE__", "__TARGET__") are atoms of   *)
(* their own, so split / startsWith / indexOf / replace are computed on    *)
(* the text exactly as the JavaScript computes them.                       *)
(***************************************************************************)
EXTENDS Naturals, Integers, Sequences, FiniteSets, TLC

VARIABLES
  ctx,            \* the EnvironmentContext object (its fields), live once constructed
  files,          \* the local file system: the credential files, by path
  remoteCopy,     \* whether ~/.infosvrauth_remoteCopy exists on the remote host
  registry,       \* the install registry document the constructor obtained, if any
  resolved,       \* what the first access of username and of password returned
  ev,             \* external effects of the last operation, in order
  last            \* the last operation: its name, inputs and outcome

vars == <<ctx, files, remoteCopy, registry, resolved, ev, last>>

----------------------------------------------------------------------------
(* Bounds of the model *)

\* how many connection details one credential file is given room for: a file
\* that already holds that many connect strings is not appended to again
MaxAppends == 1

----------------------------------------------------------------------------
(* JavaScript strings *)

NL == "\n"
EQ == "="
COLON == ":"

\* the text JavaScript produces when undefined is concatenated into a string;
\* also stands for the value undefined itself (it is not the empty string)
Undefined == <<"undefined">>

Min(S) == CHOOSE x \in S : \A y \in S : x <= y

\* String.prototype.indexOf for a one-atom needle, 1-based; 0 when absent
IndexOf(s, a) ==
  LET hits == {i \in 1..Len(s) : s[i] = a}
  IN IF hits = {} THEN 0 ELSE Min(hits)

\* String.prototype.startsWith
StartsWith(s, p) == Len(p) <= Len(s) /\ SubSeq(s, 1, Len(p)) = p

\* String.prototype.split on a one-atom separator
RECURSIVE Split(_, _)
Split(s, sep) ==
  LET i == IndexOf(s, sep)
  IN IF i = 0 THEN <<s>>
     ELSE <<SubSeq(s, 1, i - 1)>> \o Split(SubSeq(s, i + 1, Len(s)), sep)

\* array indexing a[k] (0-based k): undefined beyond the end
At(a, k) == IF k + 1 <= Len(a) THEN a[k + 1] ELSE Undefined

\* String.prototype.replace with a string pattern: the FIRST occurrence only
ReplaceFirst(s, a, rep) ==
  LET i == IndexOf(s, a)
  IN IF i = 0 THEN s ELSE SubSeq(s, 1, i - 1) \o rep \o SubSeq(s, i + 1, Len(s))

\* String.prototype.toUpperCase on the host names of the model
UpperAtom(a) ==
  CASE a = "eng1" -> "ENG1"
    [] a = "eng2" -> "ENG2"
    [] a = "host1" -> "HOST1"
    [] a = "host2" -> "HOST2"
    [] OTHER -> a

ToUpperCase(s) == [i \in 1..Len(s) |-> UpperAtom(s[i])]

----------------------------------------------------------------------------
(* Paths and the file system *)

NoPath == ""                                \* undefined / null / "" as a path
PathA == "/etc/infosvr-auth.cfg"            \* a credential file named by the caller
HomeAuth == "$HOME/.infosvrauth"            \* the per-user default credential file
Paths == {PathA, HomeAuth}
RemoteCopyPath == "~/.infosvrauth_remoteCopy"
RemoteCopyTarget == ".infosvrauth_remoteCopy"

NoFile == [exists |-> FALSE, data |-> <<>>]
File(d) == [exists |-> TRUE, data |-> d]

\* the credential files the environment can hold before the program writes any
CredBasic ==
  <<"user", EQ, "isadmin", NL,
    "password", EQ, "abc", EQ, "def", NL,
    "domain", EQ, "host2", COLON, "9445", NL,
    "server", EQ, "eng2", NL>>

CredDocker ==
  CredBasic \o
  <<"remoteConnectString", EQ, "docker exec -i ", "c1", NL,
    "remoteCopyString", EQ, "docker cp ", "__SOURCE__", " ", "c1", COLON, "__TARGET__", NL>>

\* an SSH connect string with no copy string configured
CredSsh ==
  CredBasic \o
  <<"remoteConnectString", EQ, "ssh", " -i ", "key", " ", "os", "@", "host2", NL>>

\* a credential file that lacks the password, domain and server lines
CredBare == <<"user", EQ, "dsadm", NL>>

InitContents == {CredBasic, CredDocker, CredSsh, CredBare}

FileStates == {NoFile} \cup {File(d) : d \in InitContents}

\* the per-user default file, when there is one, is a complete credential file
HomeStates == {NoFile, File(CredDocker)}

\* the file the caller names when it writes credentials
WritePaths == {PathA}

----------------------------------------------------------------------------
(* The install registry (Version.xml): the nodes the constructor selects *)

Absent == [present |-> FALSE, value |-> <<>>]
Node(v) == [present |-> TRUE, value |-> v]

DocFull ==
  [InstallType |-> Node(<<"11.7">>),
   consolePort |-> Node(<<"9446">>),
   serverHost  |-> Node(<<"host1">>),
   agentHost   |-> Node(<<"eng1">>)]

\* the registries a host can hold: complete, one required node missing, or
\* an is.console.port variable whose value attribute is empty
XmlDocs ==
  { DocFull,
    [DocFull EXCEPT !.InstallType = Absent],
    [DocFull EXCEPT !.consolePort = Absent],
    [DocFull EXCEPT !.serverHost = Absent],
    [DocFull EXCEPT !.agentHost = Absent],
    [DocFull EXCEPT !.consolePort = Node(<<>>)] }

----------------------------------------------------------------------------
(* The context object *)

\* this._restConnection while it is undefined
NoRest ==
  [present |-> FALSE, username |-> <<>>, password |-> <<>>, host |-> <<>>,
   port |-> <<>>, maxSockets |-> <<>>]

\* the fields the constructor initialises (lines 48-62)
NewCtx(authFile) ==
  [live |-> TRUE,
   authFile |-> authFile,
   remoteConnectString |-> <<>>,
   remoteCopyString |-> <<>>,
   username |-> <<>>,
   password |-> <<>>,
   clearPassword |-> <<>>,
   bOnHost |-> FALSE,
   bHaveVersionXML |-> FALSE,
   tierToHosts |-> [DOMAIN |-> Absent, ENGINE |-> Absent],
   isConsolePort |-> <<>>,
   currentVersion |-> Undefined,
   restConnection |-> NoRest]

\* no context object: before construction, or after a constructor that threw
NoCtx == [NewCtx(NoPath) EXCEPT !.live = FALSE]

----------------------------------------------------------------------------
(* One handler run: the state it threads through its calls *)

Begin ==
  [ctx |-> ctx, files |-> files, remote |-> remoteCopy, ev |-> <<>>,
   thrown |-> FALSE, val |-> <<>>, code |-> 0, path |-> NoPath, data |-> <<>>]

Throw(m) == [m EXCEPT !.thrown = TRUE]

\* an external effect: kind names the call site, cmd the command line or path
Log(m, kind, cmd) == [m EXCEPT !.ev = Append(@, [kind |-> kind, cmd |-> cmd])]

\* get authFile
GetAuthFile(m) ==
  IF m.ctx.authFile = NoPath
  THEN IF m.files[HomeAuth].exists
       THEN [m EXCEPT !.ctx.authFile = HomeAuth, !.path = HomeAuth]
       ELSE Throw(m)
  ELSE [m EXCEPT !.path = m.ctx.authFile]

\* fs.readFileSync(file, 'utf8') of the path the getter gave
ReadFileAt(a) ==
  IF a.thrown THEN a
  ELSE IF a.files[a.path].exists
       THEN [Log(a, "readFile", <<a.path>>) EXCEPT !.data = a.files[a.path].data]
       ELSE Throw(Log(a, "readFile", <<a.path>>))

\* const file = this.authFile; fs.readFileSync(file, 'utf8')
ReadAuthFile(m) == ReadFileAt(GetAuthFile(m))

\* the lines of a credential file that start with key=
KeyLines(data, key) ==
  LET aLines == Split(data, NL)
  IN {i \in 1..Len(aLines) : StartsWith(aLines[i], <<key, EQ>>)}

FirstKeyLine(data, key) == Split(data, NL)[Min(KeyLines(data, key))]

\* aLines[i].substring(aLines[i].indexOf("=") + 1)
AfterFirstEq(line) == SubSeq(line, IndexOf(line, EQ) + 1, Len(line))

\* the scan loop of _getFromAuthFileIfUnknown over the file's text
ScanProperty(data, key, current) ==
  IF KeyLines(data, key) = {} THEN current
  ELSE AfterFirstEq(FirstKeyLine(data, key))

\* this[objectProperty] = v; return this[objectProperty]
Resolved(r, objectProperty, v) == [r EXCEPT !.ctx[objectProperty] = v, !.val = v]

\* lines 123-131, r being the state after the file was read
ScanInto(r, propertyNameInFile, objectProperty) ==
  IF r.thrown THEN r
  ELSE Resolved(r, objectProperty,
                ScanProperty(r.data, propertyNameInFile, r.ctx[objectProperty]))

\* a lookup that goes to the file on every access
GetFromAuthFileIfUnknown_always(m, propertyNameInFile, objectProperty) ==
  ScanInto(ReadAuthFile(m), propertyNameInFile, objectProperty)

GetFromAuthFileIfUnknown(m, propertyNameInFile, objectProperty) ==
  IF m.ctx[objectProperty] = <<>>
  THEN ScanInto(ReadAuthFile(m), propertyNameInFile, objectProperty)
  ELSE [m EXCEPT !.val = m.ctx[objectProperty]]

GetUsername(m) == GetFromAuthFileIfUnknown(m, "user", "username")
GetPassword(m) == GetFromAuthFileIfUnknown(m, "password", "password")
GetRemoteConnectionString(m) ==
  GetFromAuthFileIfUnknown(m, "remoteConnectString", "remoteConnectString")
GetRemoteCopyString(m) ==
  GetFromAuthFileIfUnknown(m, "remoteCopyString", "remoteCopyString")

----------------------------------------------------------------------------
(* The tier accessors *)

\* aLines[i].split("=")[1] of the first line that starts with key=
ValueAfterEq(data, key) == At(Split(FirstKeyLine(data, key), EQ), 1)

\* aLines[i].split("=")[1].split(":")[k] of the first domain= line
DomainPart(data, k) == At(Split(ValueAfterEq(data, "domain"), COLON), k)

SetDomainHost(r, v) == [r EXCEPT !.ctx.tierToHosts.DOMAIN = Node(v), !.val = v]

\* lines 258-264, r being the state after the file was read
ScanDomainHost(r) ==
  IF r.thrown THEN r
  ELSE IF KeyLines(r.data, "domain") = {}
       THEN [r EXCEPT !.val = Undefined]
       ELSE SetDomainHost(r, DomainPart(r.data, 0))

GetDomainHost(m) ==
  IF m.ctx.tierToHosts.DOMAIN.present
  THEN [m EXCEPT !.val = m.ctx.tierToHosts.DOMAIN.value]
  ELSE ScanDomainHost(ReadAuthFile(m))

SetDomainPort(r, v) == [r EXCEPT !.ctx.isConsolePort = v, !.val = v]

\* lines 277-283, r being the state after the file was read
ScanDomainPort(r) ==
  IF r.thrown THEN r
  ELSE IF KeyLines(r.data, "domain") = {}
       THEN [r EXCEPT !.val = <<>>]
       ELSE SetDomainPort(r, DomainPart(r.data, 1))

GetDomainPort(m) ==
  IF m.ctx.isConsolePort = <<>>
  THEN ScanDomainPort(ReadAuthFile(m))
  ELSE [m EXCEPT !.val = m.ctx.isConsolePort]

\* host + ":" + port, p being the state after this.domainPort
JoinDomain(host, p) ==
  IF p.thrown THEN p ELSE [p EXCEPT !.val = host \o <<COLON>> \o p.val]

\* h is the state after this.domainHost
ThenDomainPort(h) == IF h.thrown THEN h ELSE JoinDomain(h.val, GetDomainPort(h))

\* this.domainHost + ":" + this.domainPort
GetDomain(m) == ThenDomainPort(GetDomainHost(m))

\* undefined.toUpperCase() raises when no server= line was found
UpperEngine(r, e) ==
  IF e.present
  THEN [r EXCEPT !.ctx.tierToHosts.ENGINE = e, !.val = ToUpperCase(e.value)]
  ELSE Throw(r)

\* lines 305-311, r being the state after the file was read
ScanEngine(r) ==
  IF r.thrown THEN r
  ELSE UpperEngine(r, IF KeyLines(r.data, "server") = {}
                      THEN Absent
                      ELSE Node(ValueAfterEq(r.data, "server")))

GetEngine(m) ==
  IF m.ctx.tierToHosts.ENGINE.present
  THEN UpperEngine(m, m.ctx.tierToHosts.ENGINE)
  ELSE ScanEngine(ReadAuthFile(m))

\* a getter that does not look at whether Version.xml was parsed
GetCurrentVersion_raw(m) == [m EXCEPT !.val = m.ctx.currentVersion]

GetCurrentVersion(m) ==
  IF m.ctx.bHaveVersionXML
  THEN [m EXCEPT !.val = m.ctx.currentVersion]
  ELSE [m EXCEPT !.val = <<"Unknown">>]

----------------------------------------------------------------------------
(* The remote execution bridge *)

\* what the external processes of one handler run answer: whether the remote
\* ls and the copy succeed, whether a successful copy lands where the ls
\* looks, and the exit code and standard output of the command itself (a
\* command that succeeds prints, one that fails prints nothing)
Oracle(lsOk, cpOk, landed, ok) ==
  [lsOk |-> lsOk, cpOk |-> cpOk, landed |-> landed,
   code |-> IF ok THEN 0 ELSE 1,
   out |-> IF ok THEN <<"out", NL>> ELSE <<>>]

Oracles ==
  {Oracle(lsOk, cpOk, landed, ok) : lsOk \in BOOLEAN, cpOk \in BOOLEAN,
                                    landed \in BOOLEAN, ok \in BOOLEAN}

\* where only the command itself is run
CommandOracles == {Oracle(TRUE, TRUE, TRUE, ok) : ok \in BOOLEAN}

\* where only a copy is run
CopyOracles == {Oracle(TRUE, ok, TRUE, ok) : ok \in BOOLEAN}

ExitCode(ok) == IF ok THEN 0 ELSE 1

\* lines 165-178, r being the state after this.remoteCopyString
CopyWith(r, source, target, o) ==
  IF r.thrown THEN r
  ELSE IF r.val # <<>>
       THEN [Log(r, "remoteCopy",
                 ReplaceFirst(ReplaceFirst(r.val, "__SOURCE__", source),
                              "__TARGET__", target)) EXCEPT
               !.code = ExitCode(o.cpOk),
               !.val = <<>>,
               !.remote = IF o.cpOk /\ o.landed /\ target = <<RemoteCopyTarget>>
                          THEN TRUE ELSE @]
       ELSE [r EXCEPT !.code = -1, !.val = Undefined]

_copyFileRemotely(m, source, target, o) ==
  CopyWith(GetRemoteCopyString(m), source, target, o)

\* line 137, a being the state after this.authFile
CopyAuthFile(a, o) ==
  IF a.thrown THEN a
  ELSE _copyFileRemotely(a, <<a.path>>, <<RemoteCopyTarget>>, o)

\* a check that copies the credential file whatever the ls answered
CopyIfMissing_always(l, o) == CopyAuthFile(GetAuthFile(l), o)

\* lines 136-138, l being the state after the ls: the ls succeeds only when
\* the remote copy is there
CopyIfMissing(l, o) ==
  IF ~(o.lsOk /\ l.remote) THEN CopyAuthFile(GetAuthFile(l), o) ELSE l

\* line 135, r being the state after this.remoteConnectionString
LsWith(r, o) ==
  IF r.thrown THEN r
  ELSE CopyIfMissing(Log(r, "remoteLs", r.val \o <<" ls ", RemoteCopyPath>>), o)

_checkForRemoteAuthFile(m, o) == LsWith(GetRemoteConnectionString(m), o)

\* lines 145-149: the command line, quoted for ssh
ExecString(connect, rewritten) ==
  IF StartsWith(connect, <<"ssh">>)
  THEN connect \o <<" \"">> \o rewritten \o <<"\"">>
  ELSE connect \o <<" ">> \o rewritten

\* lines 145-155, a being the state after this.authFile
ExecAt(connect, a, command, o) ==
  IF a.thrown THEN a
  ELSE [Log(a, "remoteExec",
            ExecString(connect, ReplaceFirst(command, a.path, <<RemoteCopyPath>>))) EXCEPT
          !.code = o.code, !.val = o.out]

\* a bridge that gives up when the copy of the credential file failed
ExecChecked_strict(connect, c, command, o) ==
  IF c.thrown \/ c.code # 0 THEN c ELSE ExecAt(connect, GetAuthFile(c), command, o)

\* c is the state after _checkForRemoteAuthFile
ExecChecked(connect, c, command, o) ==
  IF c.thrown THEN c ELSE ExecAt(connect, GetAuthFile(c), command, o)

\* lines 143-155: the branch taken with a connect string; r holds it in r.val
ExecuteWithConnectString(r, command, o) ==
  ExecChecked(r.val, _checkForRemoteAuthFile(r, o), command, o)

\* lines 142-161, r being the state after this.remoteConnectionString
ExecIfConfigured(r, command, o) ==
  IF r.thrown THEN r
  ELSE IF r.val # <<>>
       THEN ExecuteWithConnectString(r, command, o)
       ELSE [r EXCEPT !.code = -1, !.val = Undefined]

\* a bridge that runs the command whether or not a connect string is known
_executeCommandRemotely_unchecked(m, command, o) ==
  ExecuteWithConnectString(GetRemoteConnectionString(m), command, o)

_executeCommandRemotely(m, command, o) ==
  ExecIfConfigured(GetRemoteConnectionString(m), command, o)

\* lines 182-195, r being the state after this.remoteConnectionString
RemoveWith(r, file, o) ==
  IF r.thrown THEN r
  ELSE IF r.val # <<>>
       THEN [Log(r, "remoteRm", r.val \o <<" rm ", file>>) EXCEPT
               !.code = o.code,
               !.val = o.out,
               !.remote = IF o.code = 0 /\ file = RemoteCopyPath THEN FALSE ELSE @]
       ELSE [r EXCEPT !.code = -1, !.val = Undefined]

_removeFileRemotely(m, file, o) == RemoveWith(GetRemoteConnectionString(m), file, o)

----------------------------------------------------------------------------
(* Construction *)

\* a parse that skips the nodes it does not find instead of raising
ParseInventory_lenient(m, doc) ==
  [m EXCEPT !.ctx.bHaveVersionXML = TRUE,
            !.ctx.currentVersion = IF doc.InstallType.present THEN doc.InstallType.value ELSE @,
            !.ctx.isConsolePort = doc.consolePort.value,
            !.ctx.tierToHosts.DOMAIN = doc.serverHost,
            !.ctx.tierToHosts.ENGINE = doc.agentHost]

\* lines 93-112: the selects, in order; [0] of an empty node list is
\* undefined and getAttribute on it raises
ParseInventory(m, doc) ==
  LET a == [m EXCEPT !.ctx.bHaveVersionXML = TRUE]
      b == [a EXCEPT !.ctx.currentVersion = doc.InstallType.value]
      c == [b EXCEPT !.ctx.isConsolePort = doc.consolePort.value]
      d == [c EXCEPT !.ctx.tierToHosts.DOMAIN = Node(doc.serverHost.value)]
      e == [d EXCEPT !.ctx.tierToHosts.ENGINE = Node(doc.agentHost.value)]
  IN IF ~doc.InstallType.present THEN Throw(a)
     ELSE IF ~doc.consolePort.present THEN Throw(b)
     ELSE IF ~doc.serverHost.present THEN Throw(c)
     ELSE IF ~doc.agentHost.present THEN Throw(d)
     ELSE e

\* the host a process is started on: the /.dshome marker, the install root
\* directory, and Version.xml under it
Host(marker, installDir, versionXML) ==
  [marker |-> marker, installDir |-> installDir, versionXML |-> versionXML]

OffHost == Host(FALSE, FALSE, FALSE)
OnHosts == {Host(TRUE, TRUE, x) : x \in BOOLEAN} \cup {Host(FALSE, TRUE, x) : x \in BOOLEAN}

\* lines 63-73: the fields as they stand when host detection ends
Detected(m, authFile, host) ==
  [m EXCEPT !.ctx = [NewCtx(authFile) EXCEPT !.bOnHost = host.marker \/ host.installDir]]

\* lines 77-79: off the host, Version.xml is fetched through the bridge
FetchVersionXML(n, o) ==
  IF n.ctx.bOnHost THEN n
  ELSE _executeCommandRemotely(n, <<"cat ", "Version.xml">>, o)

\* lines 80-91: whether a document was obtained (f is the state after the fetch)
GotVersionXML(f, host) ==
  /\ ~f.thrown
  /\ IF f.ctx.bOnHost THEN host.versionXML ELSE f.code = 0

\* lines 93-112, f being the state after the fetch
ParseIfGot(f, host, doc) ==
  IF GotVersionXML(f, host) THEN ParseInventory(f, doc) ELSE f

\* lines 46-114; doc is the content of Version.xml, read locally or printed
\* by the remote cat
Constructor(m, authFile, host, doc, o) ==
  ParseIfGot(FetchVersionXML(Detected(m, authFile, host), o), host, doc)

----------------------------------------------------------------------------
(* The credential file writers *)

\* a password is encrypted text or anything the command printed instead
EncOuts == { <<"{iisenc}", NL>>, <<"{iisenc}">>, <<>> }
EncOracles == [code : {0, 1}, out : EncOuts]

\* lines 333-338: the encryption command is run and the fields are assigned
Encrypted(c, username, enc) ==
  [Log(c, "encrypt", <<"ASBNode/bin/encrypt.sh ">> \o c.ctx.clearPassword) EXCEPT
     !.ctx.username = username,
     !.ctx.password = ReplaceFirst(enc.out, NL, <<>>)]

\* lines 339-343: the text of the file
AuthData(username, stored, domain, server) ==
  <<"user", EQ>> \o username \o <<NL>> \o
  <<"password", EQ>> \o stored \o
  <<"domain", EQ>> \o domain \o <<NL>> \o
  <<"server", EQ>> \o server \o <<NL>>

\* lines 344-345, e being the state after this.engine
WriteWithEngine(e, username, stored, domain, file) ==
  IF e.thrown THEN e
  ELSE [Log(e, "writeFile", <<file>>) EXCEPT
          !.files[file] = File(AuthData(username, stored, domain, e.val)),
          !.ctx.authFile = file,
          !.val = <<>>]

\* d is the state after this.domain
WriteWithDomain(d, username, stored, file) ==
  IF d.thrown THEN d
  ELSE WriteWithEngine(GetEngine(d), username, stored, d.val, file)

\* lines 333-345: the part that runs once the host check has passed; stored
\* is what goes into the password field of the file
WriteAuthFile(c, username, stored, file, enc) ==
  WriteWithDomain(GetDomain(Encrypted(c, username, enc)), username, stored, file)

\* a writer that does not insist on running on the host
createAuthFileFromParams_anywhere(m, username, password, file, enc) ==
  WriteAuthFile([m EXCEPT !.ctx.clearPassword = password], username, enc.out, file, enc)

\* a writer that stores the password it was given
createAuthFileFromParams_plain(m, username, password, file, enc) ==
  LET c == [m EXCEPT !.ctx.clearPassword = password]
  IN IF ~c.ctx.bOnHost THEN Throw(c)
     ELSE WriteAuthFile(c, username, password \o <<NL>>, file, enc)

\* a writer that gives up when the encryption command fails
createAuthFileFromParams_strict(m, username, password, file, enc) ==
  LET c == [m EXCEPT !.ctx.clearPassword = password]
  IN IF ~c.ctx.bOnHost \/ enc.code # 0 THEN Throw(c)
     ELSE WriteAuthFile(c, username, enc.out, file, enc)

createAuthFileFromParams(m, username, password, file, enc) ==
  LET c == [m EXCEPT !.ctx.clearPassword = password]
  IN IF ~c.ctx.bOnHost THEN Throw(c)
     ELSE WriteAuthFile(c, username, enc.out, file, enc)

NoPort == Undefined

ConnectString(accessType, username, privateKey, hostOrContainer, port) ==
  IF accessType = "SSH"
  THEN <<"ssh", " -i ", privateKey, " ", username, "@", hostOrContainer>> \o
       (IF port # NoPort THEN <<" -p ">> \o port ELSE <<>>)
  ELSE IF accessType = "DOCKER"
  THEN <<"docker exec -i ", hostOrContainer>>
  ELSE <<>>

CopyString(accessType, username, privateKey, hostOrContainer) ==
  IF accessType = "SSH"
  THEN <<"scp -i ", privateKey, " ", "__SOURCE__", " ", username, "@",
         hostOrContainer, COLON, "__TARGET__">>
  ELSE IF accessType = "DOCKER"
  THEN <<"docker cp ", "__SOURCE__", " ", hostOrContainer, COLON, "__TARGET__">>
  ELSE <<>>

\* fs.appendFileSync creates the file when it does not exist
AppendFile(m, file, text) ==
  [Log(m, "appendFile", <<file>>) EXCEPT !.files[file] = File(@.data \o text)]

\* a writer that takes the remote details as a sign of a remote context
addRemoteConnectionDetailsToAuthFile_offHost(m, file, accessType, username, privateKey, hostOrContainer, port) ==
  LET connectString == ConnectString(accessType, username, privateKey, hostOrContainer, port)
      copyString == CopyString(accessType, username, privateKey, hostOrContainer)
      c == [m EXCEPT !.ctx.remoteConnectString = connectString,
                     !.ctx.remoteCopyString = copyString]
      f == AppendFile(AppendFile(c, file, connectString), file, copyString)
  IN [f EXCEPT !.ctx.authFile = file, !.ctx.bOnHost = FALSE]

addRemoteConnectionDetailsToAuthFile(m, file, accessType, username, privateKey, hostOrContainer, port) ==
  LET connectString == ConnectString(accessType, username, privateKey, hostOrContainer, port)
      copyString == CopyString(accessType, username, privateKey, hostOrContainer)
      c == [m EXCEPT !.ctx.remoteConnectString = connectString,
                     !.ctx.remoteCopyString = copyString]
      f == AppendFile(AppendFile(c, file, connectString), file, copyString)
  IN [f EXCEPT !.ctx.authFile = file]

----------------------------------------------------------------------------
(* Routing *)

\* a routing that forgets the host check
runInfoSvrCommand_local(m, command, o) ==
  [Log(m, "localExec", command) EXCEPT !.code = o.code, !.val = o.out]

runInfoSvrCommand(m, command, o) ==
  IF m.ctx.bOnHost
  THEN [Log(m, "localExec", command) EXCEPT !.code = o.code, !.val = o.out]
  ELSE _executeCommandRemotely(m, command, o)

\* shell.cp of files that are no credential files of the model
copyFile(m, source, target, o) ==
  IF m.ctx.bOnHost
  THEN [Log(m, "localCp", source \o <<" ">> \o target) EXCEPT !.code = o.code]
  ELSE _copyFileRemotely(m, source, target, o)

\* shell.rm removes a local credential file when that is the file named
removeFile(m, file, o) ==
  IF m.ctx.bOnHost
  THEN [Log(m, "localRm", <<file>>) EXCEPT
          !.code = o.code,
          !.files = IF o.code = 0 /\ file \in Paths
                    THEN [@ EXCEPT ![file] = NoFile] ELSE @]
  ELSE _removeFileRemotely(m, file, o)

----------------------------------------------------------------------------
(* The REST connection *)

\* x === undefined || x === ""
Missing(x) == x = Undefined \/ x = <<>>

DefaultMaxSockets == <<"100">>

\* new RestConnection(username, password, host, port, maxSockets), the
\* object stored in this._restConnection
RestConnection(r, username, password, host, port, maxSockets) ==
  IF Missing(username) \/ Missing(password) THEN Throw(r)
  ELSE IF Missing(host) \/ Missing(port) THEN Throw(r)
  ELSE [r EXCEPT !.val = <<>>,
                 !.ctx.restConnection =
                   [present |-> TRUE, username |-> username, password |-> password,
                    host |-> host, port |-> port,
                    maxSockets |-> IF Missing(maxSockets) THEN DefaultMaxSockets
                                   ELSE maxSockets]]

\* the constructor's arguments are evaluated left to right: this.username,
\* this.domainHost, this.domainPort
RestWithPort(p, username, password, host, maxSockets) ==
  IF p.thrown THEN p
  ELSE RestConnection(p, username, password, host, p.val, maxSockets)

RestWithHost(h, username, password, maxSockets) ==
  IF h.thrown THEN h
  ELSE RestWithPort(GetDomainPort(h), username, password, h.val, maxSockets)

RestWithUsername(u, password, maxSockets) ==
  IF u.thrown THEN u
  ELSE RestWithHost(GetDomainHost(u), u.val, password, maxSockets)

getRestConnection(m, password, maxSockets) ==
  IF ~m.ctx.restConnection.present
  THEN RestWithUsername(GetUsername(m), password, maxSockets)
  ELSE IF ~Missing(maxSockets)
       THEN [m EXCEPT !.val = <<>>, !.ctx.restConnection.maxSockets = maxSockets]
       ELSE [m EXCEPT !.val = <<>>]

----------------------------------------------------------------------------
(* Inputs of the operations *)

Usernames == { <<"dsadm">> }
Passwords == { <<"secret">> }
Commands ==
  { <<"ls">>,
    <<"istool -authfile ", PathA>>,
    <<"diff ", PathA, " ", PathA>> }
TmpFile == "/tmp/export.isx"
RmFiles == {TmpFile, RemoteCopyPath, PathA}
AccessTypes == {"SSH", "DOCKER", "NONE"}
Ports == {NoPort, <<"2222">>}
\* the password given to getRestConnection; "" is a password left out
RestPasswords == Passwords \cup { <<>> }
MaxSocketsArgs == {Undefined, <<"10">>}

----------------------------------------------------------------------------
(* The state machine *)

Op(name) ==
  [op |-> name, thrown |-> FALSE, val |-> <<>>, code |-> 0,
   file |-> NoPath, user |-> <<>>, pass |-> <<>>, enc |-> <<>>]

\* the constructor's run: where it ran, and whether it obtained Version.xml
ConstructorOp(authFile, host, fetched) ==
  [Op("constructor") EXCEPT
     !.file = authFile,
     !.user = <<IF host = OffHost THEN "offHost" ELSE "onHost">>,
     !.enc = <<IF fetched THEN "fetched" ELSE "notFetched">>]

\* a handler run ends: its effects become the state; a result exists only
\* when it returned
Return(m, l) ==
  /\ files' = m.files
  /\ remoteCopy' = m.remote
  /\ ev' = m.ev
  /\ last' = [l EXCEPT !.thrown = m.thrown,
                       !.val = IF m.thrown THEN <<>> ELSE m.val,
                       !.code = IF m.thrown THEN 0 ELSE m.code]

Init ==
  /\ ctx = NoCtx
  /\ files \in {f \in [Paths -> FileStates] : f[HomeAuth] \in HomeStates}
  /\ remoteCopy \in BOOLEAN
  /\ registry = Absent
  /\ resolved = [username |-> Absent, password |-> Absent]
  /\ ev = <<>>
  /\ last = Op("none")

\* one context per process: construction is the first thing that happens,
\* and a constructor that throws yields no object
Constructed(authFile, host, doc, o) ==
  LET m == Constructor(Begin, authFile, host, doc, o)
      fetched == GotVersionXML(FetchVersionXML(Detected(Begin, authFile, host), o), host)
  IN /\ last.op = "none"
     /\ ctx' = IF m.thrown THEN NoCtx ELSE m.ctx
     /\ registry' = IF fetched THEN Node(doc) ELSE Absent
     /\ UNCHANGED resolved
     /\ Return(m, ConstructorOp(authFile, host, fetched))

\* new EnvironmentContext(installLocation, authFile) on the platform host
ConstructOnHost ==
  \E authFile \in Paths \cup {NoPath}, host \in OnHosts :
    \E doc \in IF host.versionXML THEN XmlDocs ELSE {DocFull} :
      Constructed(authFile, host, doc, Oracle(TRUE, TRUE, TRUE, TRUE))

\* the same on a machine without the platform: Version.xml is what the
\* remote cat prints
ConstructOffHost ==
  \E authFile \in Paths \cup {NoPath}, o \in Oracles :
    \E doc \in IF o.code = 0 THEN XmlDocs ELSE {DocFull} :
      Constructed(authFile, OffHost, doc, o)

Accessor(name, m) ==
  /\ ctx.live
  /\ ctx' = m.ctx
  /\ UNCHANGED registry
  /\ resolved' = IF name \in DOMAIN resolved /\ ~m.thrown /\ ~resolved[name].present
                 THEN [resolved EXCEPT ![name] = Node(m.val)]
                 ELSE resolved
  /\ Return(m, Op(name))

Username == Accessor("username", GetUsername(Begin))
Password == Accessor("password", GetPassword(Begin))
RemoteConnectionString == Accessor("remoteConnectionString", GetRemoteConnectionString(Begin))
RemoteCopyString == Accessor("remoteCopyString", GetRemoteCopyString(Begin))
DomainHost == Accessor("domainHost", GetDomainHost(Begin))
DomainPort == Accessor("domainPort", GetDomainPort(Begin))
Domain == Accessor("domain", GetDomain(Begin))
Engine == Accessor("engine", GetEngine(Begin))
CurrentVersion == Accessor("currentVersion", GetCurrentVersion(Begin))
AuthFile ==
  LET m == GetAuthFile(Begin)
  IN Accessor("authFile", [m EXCEPT !.val = <<m.path>>])

\* set authFile(file)
SetAuthFile ==
  \E file \in Paths \cup {NoPath} :
    /\ ctx.live
    /\ ctx' = [ctx EXCEPT !.authFile = file]
    /\ UNCHANGED <<registry, resolved>>
    /\ Return(Begin, [Op("setAuthFile") EXCEPT !.file = file])

CreateAuthFileFromParams ==
  \E username \in Usernames, password \in Passwords, file \in WritePaths, enc \in EncOracles :
    LET m == createAuthFileFromParams(Begin, username, password, file, enc)
    IN /\ ctx.live
       /\ ctx' = m.ctx
       /\ UNCHANGED <<registry, resolved>>
       /\ Return([m EXCEPT !.code = enc.code],
                 [Op("createAuthFileFromParams") EXCEPT
                    !.file = file, !.user = username, !.pass = password, !.enc = enc.out])

\* the connect strings a file's text holds, keyed or bare
ConnectStrings(data) ==
  Cardinality({i \in 1..Len(data) : data[i] \in {"ssh", "docker exec -i "}})

AddRemoteConnectionDetailsToAuthFile ==
  \E file \in WritePaths, accessType \in AccessTypes, port \in Ports :
    LET m == addRemoteConnectionDetailsToAuthFile(
               Begin, file, accessType, "os", "key",
               IF accessType = "SSH" THEN "host2" ELSE "c1", port)
    IN /\ ctx.live
       /\ ConnectStrings(files[file].data) < MaxAppends
       /\ ctx' = m.ctx
       /\ UNCHANGED <<registry, resolved>>
       /\ Return(m, [Op("addRemoteConnectionDetailsToAuthFile") EXCEPT
                       !.file = file, !.user = <<accessType>>])

RunInfoSvrCommand ==
  \E command \in Commands, o \in IF ctx.bOnHost THEN CommandOracles ELSE Oracles :
    LET m == runInfoSvrCommand(Begin, command, o)
    IN /\ ctx.live
       /\ ctx' = m.ctx
       /\ UNCHANGED <<registry, resolved>>
       /\ Return(m, Op("runInfoSvrCommand"))

CopyFile ==
  \E o \in CopyOracles :
    LET m == copyFile(Begin, <<TmpFile>>, <<"/tmp">>, o)
    IN /\ ctx.live
       /\ ctx' = m.ctx
       /\ UNCHANGED <<registry, resolved>>
       /\ Return(m, Op("copyFile"))

RemoveFile ==
  \E file \in RmFiles, o \in CommandOracles :
    LET m == removeFile(Begin, file, o)
    IN /\ ctx.live
       /\ ctx' = m.ctx
       /\ UNCHANGED <<registry, resolved>>
       /\ Return(m, [Op("removeFile") EXCEPT !.file = file])

\* getRestConnection(password, maxSockets)
GetRestConnection ==
  \E password \in RestPasswords, maxSockets \in MaxSocketsArgs :
    LET m == getRestConnection(Begin, password, maxSockets)
    IN /\ ctx.live
       /\ ctx' = m.ctx
       /\ UNCHANGED <<registry, resolved>>
       /\ Return(m, Op("getRestConnection"))

Next ==
  \/ ConstructOnHost
  \/ ConstructOffHost
  \/ Username
  \/ Password
  \/ RemoteConnectionString
  \/ RemoteCopyString
  \/ DomainHost
  \/ DomainPort
  \/ Domain
  \/ Engine
  \/ CurrentVersion
  \/ AuthFile
  \/ SetAuthFile
  \/ CreateAuthFileFromParams
  \/ AddRemoteConnectionDetailsToAuthFile
  \/ RunInfoSvrCommand
  \/ CopyFile
  \/ RemoveFile
  \/ GetRestConnection

Spec == Init /\ [][Next]_vars

\* the operations that decide where a command, copy or remove is executed
NextRoute ==
  \/ ConstructOnHost
  \/ ConstructOffHost
  \/ RemoteConnectionString
  \/ RemoteCopyString
  \/ AuthFile
  \/ SetAuthFile
  \/ AddRemoteConnectionDetailsToAuthFile
  \/ RunInfoSvrCommand
  \/ CopyFile
  \/ RemoveFile

SpecRoute == Init /\ [][NextRoute]_vars

\* the operations that read or write the credentials of a context
NextCred ==
  \/ ConstructOnHost
  \/ ConstructOffHost
  \/ Domain
  \/ Engine
  \/ SetAuthFile
  \/ CreateAuthFileFromParams
  \/ AddRemoteConnectionDetailsToAuthFile

SpecCred == Init /\ [][NextCred]_vars

\* the accesses of username and password, and what may happen between them
NextMemo ==
  \/ ConstructOnHost
  \/ ConstructOffHost
  \/ Username
  \/ Password
  \/ SetAuthFile
  \/ CreateAuthFileFromParams
  \/ AddRemoteConnectionDetailsToAuthFile

SpecMemo == Init /\ [][NextMemo]_vars

\* the operations that resolve the tiers and the version
NextTier ==
  \/ ConstructOnHost
  \/ ConstructOffHost
  \/ DomainHost
  \/ DomainPort
  \/ Domain
  \/ Engine
  \/ CurrentVersion
  \/ SetAuthFile
  \/ CreateAuthFileFromParams

SpecTier == Init /\ [][NextTier]_vars

\* every public operation of a context, on a machine whose one credential
\* file configures an SSH bridge; the username and password getters run
\* inside getRestConnection and createAuthFileFromParams
InitHost ==
  /\ ctx = NoCtx
  /\ files = [p \in Paths |-> IF p = PathA THEN File(CredSsh) ELSE NoFile]
  /\ remoteCopy \in BOOLEAN
  /\ registry = Absent
  /\ resolved = [username |-> Absent, password |-> Absent]
  /\ ev = <<>>
  /\ last = Op("none")

NextHost ==
  \/ ConstructOnHost
  \/ ConstructOffHost
  \/ RemoteConnectionString
  \/ RemoteCopyString
  \/ DomainHost
  \/ DomainPort
  \/ Domain
  \/ Engine
  \/ CurrentVersion
  \/ AuthFile
  \/ SetAuthFile
  \/ CreateAuthFileFromParams
  \/ AddRemoteConnectionDetailsToAuthFile
  \/ RunInfoSvrCommand
  \/ CopyFile
  \/ RemoveFile
  \/ GetRestConnection

SpecHost == InitHost /\ [][NextHost]_vars

----------------------------------------------------------------------------
(* What the claims speak of *)

Kinds(e) == {e[i].kind : i \in 1..Len(e)}

\* the call sites of shell.exec: an external process is spawned
SpawnKinds == {"localExec", "remoteLs", "remoteExec", "remoteCopy", "remoteRm", "encrypt"}
\* the direct local executions of a command, a copy, a remove
LocalKinds == {"localExec", "localCp", "localRm"}
\* the commands built from the connect string or the copy template
BridgeKinds == {"remoteLs", "remoteExec", "remoteCopy", "remoteRm"}

NoSpawn(e) == Kinds(e) \cap SpawnKinds = {}

LocalKindOf(op) ==
  CASE op = "runInfoSvrCommand" -> "localExec"
    [] op = "copyFile" -> "localCp"
    [] op = "removeFile" -> "localRm"

\* what the matching bridge operation may do, and nothing else
BridgeKindsOf(op) ==
  CASE op = "runInfoSvrCommand" -> {"readFile", "remoteLs", "remoteCopy", "remoteExec"}
    [] op = "copyFile" -> {"readFile", "remoteCopy"}
    [] op = "removeFile" -> {"readFile", "remoteRm"}

\* the command the matching bridge operation ends with when it is configured
BridgeKindOf(op) ==
  CASE op = "runInfoSvrCommand" -> "remoteExec"
    [] op = "copyFile" -> "remoteCopy"
    [] op = "removeFile" -> "remoteRm"

\* the string that configures the matching bridge operation
BridgeString(op) ==
  IF op = "copyFile" THEN ctx.remoteCopyString ELSE ctx.remoteConnectString

Routed == {"runInfoSvrCommand", "copyFile", "removeFile"}

\* C1: runInfoSvrCommand, copyFile and removeFile execute directly and
\* locally on an on-host context, with no command built from the connect
\* string or the copy template; on a context that is not on-host they do
\* what the matching remote-bridge operation does (its last command is the
\* bridge command when the bridge is configured) and execute nothing
\* directly and locally.
C1_Routing ==
  last.op \in Routed =>
    IF ctx.bOnHost
    THEN /\ ~last.thrown
         /\ Len(ev) = 1
         /\ ev[1].kind = LocalKindOf(last.op)
    ELSE /\ Kinds(ev) \subseteq BridgeKindsOf(last.op)
         /\ (~last.thrown /\ BridgeString(last.op) # <<>>) =>
              /\ ev # <<>>
              /\ ev[Len(ev)].kind = BridgeKindOf(last.op)

C1_Witness_Remote ==
  /\ last.op = "runInfoSvrCommand"
  /\ ~ctx.bOnHost
  /\ ~last.thrown
  /\ "remoteExec" \in Kinds(ev)

\* the credential file of the context: the one it names, else the default
CredentialPath == IF ctx.authFile = NoPath THEN HomeAuth ELSE ctx.authFile
Readable == files[CredentialPath].exists
Configures(key) == ScanProperty(files[CredentialPath].data, key, <<>>) # <<>>

BridgeKey(op) == IF op = "copyFile" THEN "remoteCopyString" ELSE "remoteConnectString"

NotConfiguredResult(l, e) == ~l.thrown /\ l.code = -1 /\ NoSpawn(e)

Created == last.op = "createAuthFileFromParams"

\* C3: createAuthFileFromParams on a context that is not on-host raises,
\* leaves every file as it was and spawns no process.
C3_HostRequired ==
  [][ (last'.op = "createAuthFileFromParams" /\ ~ctx.bOnHost)
      => (last'.thrown /\ files' = files /\ NoSpawn(ev') /\ "writeFile" \notin Kinds(ev')) ]_vars

C3_Witness ==
  /\ Created
  /\ ~ctx.bOnHost
  /\ last.thrown
  /\ ev = <<>>

\* the atoms of a string
Atoms(s) == {s[i] : i \in 1..Len(s)}

Fresh(fs, file) == [Begin EXCEPT !.ctx = NewCtx(file), !.files = fs, !.ev = <<>>]

StripTrailingNL(s) ==
  IF s # <<>> /\ s[Len(s)] = NL THEN SubSeq(s, 1, Len(s) - 1) ELSE s

\* C5: after createAuthFileFromParams has completed, a fresh context on the
\* written file returns the given username, the encryption output without
\* its trailing newline as password, the writing context's host:port as
\* domain and its upper-cased engine host as engine; for every encryption
\* output, also one that is empty or has no trailing newline.
C5_RoundTrip ==
  (Created /\ ~last.thrown) =>
    LET f == Fresh(files, last.file)
    IN /\ ~GetUsername(f).thrown /\ GetUsername(f).val = last.user
       /\ ~GetPassword(f).thrown /\ GetPassword(f).val = StripTrailingNL(last.enc)
       /\ ~GetDomain(f).thrown /\ GetDomain(f).val = GetDomain(Begin).val
       /\ ~GetEngine(f).thrown /\ GetEngine(f).val = GetEngine(Begin).val

\* the round trip for the encryption outputs that are one line ended by a newline
C5_RoundTripOfOneLine ==
  (last.enc # <<>> /\ last.enc[Len(last.enc)] = NL) => C5_RoundTrip

\* C6: after addRemoteConnectionDetailsToAuthFile with access type SSH or
\* DOCKER the file holds the lines remoteConnectString=<connect template>
\* and remoteCopyString=<copy template>, a fresh context on the file
\* resolves both templates as they were built, and the user, password,
\* domain and server fields read back as before the call.
C6_RemoteDetailsReadBack ==
  [][ (/\ last'.op = "addRemoteConnectionDetailsToAuthFile"
       /\ last'.user \in {<<"SSH">>, <<"DOCKER">>})
      => LET f == Fresh(files', last'.file)
             lines == Split(files'[last'.file].data, NL)
         IN /\ \E i \in 1..Len(lines) :
                 lines[i] = <<"remoteConnectString", EQ>> \o ctx'.remoteConnectString
            /\ \E i \in 1..Len(lines) :
                 lines[i] = <<"remoteCopyString", EQ>> \o ctx'.remoteCopyString
            /\ GetRemoteConnectionString(f).val = ctx'.remoteConnectString
            /\ GetRemoteCopyString(f).val = ctx'.remoteCopyString
            /\ \A key \in {"user", "password", "domain", "server"} :
                 ScanProperty(files'[last'.file].data, key, <<>>)
                   = ScanProperty(files[last'.file].data, key, <<>>) ]_vars

\* the part of C6 the code keeps: the fields already in the file read back unchanged
C6_FieldsKept ==
  [][ last'.op = "addRemoteConnectionDetailsToAuthFile"
      => \A key \in {"user", "password", "domain", "server"} :
           ScanProperty(files'[last'.file].data, key, <<>>)
             = ScanProperty(files[last'.file].data, key, <<>>) ]_vars

TierOps == {"domainHost", "domainPort", "domain", "engine"}

\* what the parsed registry says of the tiers
InventoryValue(op, doc) ==
  CASE op = "domainHost" -> doc.serverHost.value
    [] op = "domainPort" -> doc.consolePort.value
    [] op = "domain" -> doc.serverHost.value \o <<COLON>> \o doc.consolePort.value
    [] op = "engine" -> ToUpperCase(doc.agentHost.value)

Reads(e) == Cardinality({i \in 1..Len(e) : e[i].kind = "readFile"})

\* C7, resolution from the inventory: with a parsed inventory the tier
\* accessors return the inventory's values and never read the credential file
C7_FromInventory ==
  (ctx.live /\ last.op \in TierOps /\ ctx.bHaveVersionXML) =>
    /\ ~last.thrown
    /\ Reads(ev) = 0
    /\ last.val = InventoryValue(last.op, registry.value)

\* the text after key= on the file's first key= line, when that text is a
\* plain value (no further "=")
PlainValue(data, key) ==
  LET line == FirstKeyLine(data, key)
      v == SubSeq(line, 3, Len(line))
  IN IF EQ \in Atoms(v) THEN <<>> ELSE v

Colons(v) == Cardinality({i \in 1..Len(v) : v[i] = COLON})

\* C7, resolution from the credential file: without an inventory, a domain
\* that was read from the file is the host:port of its domain= line, an
\* engine that was read from the file the upper-cased host of its server=
\* line
C7_FromFile ==
  (ctx.live /\ ~ctx.bHaveVersionXML /\ ~last.thrown) =>
    /\ ( /\ last.op = "domain" /\ Reads(ev) = 2
         /\ KeyLines(files[CredentialPath].data, "domain") # {}
         /\ Colons(PlainValue(files[CredentialPath].data, "domain")) = 1 )
       => last.val = PlainValue(files[CredentialPath].data, "domain")
    /\ ( /\ last.op = "engine" /\ Reads(ev) = 1
         /\ KeyLines(files[CredentialPath].data, "server") # {}
         /\ PlainValue(files[CredentialPath].data, "server") # <<>> )
       => last.val = ToUpperCase(PlainValue(files[CredentialPath].data, "server"))

\* C7, memoization: a tier value, once resolved (by the inventory or by a
\* first access), is the value every later access returns
C7_Memoized ==
  ctx.live =>
    /\ ctx.tierToHosts.DOMAIN.present => ctx'.tierToHosts.DOMAIN = ctx.tierToHosts.DOMAIN
    /\ ctx.tierToHosts.ENGINE.present => ctx'.tierToHosts.ENGINE = ctx.tierToHosts.ENGINE
    /\ (ctx.bHaveVersionXML \/ ctx.isConsolePort # <<>>) => ctx'.isConsolePort = ctx.isConsolePort

\* C7 as stated: domain and engine resolve from the inventory whenever one
\* was parsed at construction and then never read the credential file; only
\* without an inventory are they parsed from the file's domain= and server=
\* lines; domain is host:port, engine the upper-cased host; the first
\* resolved value is returned by every later access.
C7_Original == []C7_FromInventory /\ []C7_FromFile /\ [][C7_Memoized]_vars

\* the same holds of the contexts whose inventory gives a console port
HasPort == registry.present => registry.value.consolePort.value # <<>>

C7_WithPort ==
  /\ [](HasPort => C7_FromInventory)
  /\ [](HasPort => C7_FromFile)
  /\ [][HasPort => C7_Memoized]_vars

----------------------------------------------------------------------------
(* Construction without an inventory *)

\* the constructor ran off the host and obtained no Version.xml
RetrievalFailed ==
  last.op = "constructor" /\ last.user = <<"offHost">> /\ last.enc = <<"notFetched">>

\* the context the constructor leaves when it has no inventory: the version
\* reads "Unknown", no tier value is held, and domain and engine go to the
\* credential file when they are asked for
CredentialFileOnly ==
  /\ ~last.thrown
  /\ ctx.live
  /\ ~ctx.bHaveVersionXML
  /\ GetCurrentVersion(Begin).val = <<"Unknown">>
  /\ ~ctx.tierToHosts.DOMAIN.present
  /\ ~ctx.tierToHosts.ENGINE.present
  /\ ctx.isConsolePort = <<>>
  /\ Reads(GetDomain(Begin).ev) = 2
  /\ Reads(GetEngine(Begin).ev) = 1

\* C8 as stated: off the host, when the retrieval of the inventory through
\* the bridge fails for any reason, no credential file included,
\* construction completes with a context without inventory whose
\* currentVersion is the unknown version and whose domain and engine are
\* read from the credential file on access.
C8_Original == RetrievalFailed => CredentialFileOnly

\* the credential file the constructor was pointed at (the one in the home
\* directory when it was given none) exists
ConstructedWithFile ==
  files[IF last.file = NoPath THEN HomeAuth ELSE last.file].exists

\* C8: off the host, when a credential file exists and the retrieval of the
\* inventory through the bridge fails (no connect string configured, or a
\* non-zero exit of the remote cat), construction completes with a context
\* without inventory whose currentVersion is "Unknown" and whose domain and
\* engine are read from the credential file on access.
C8_Fallback == (RetrievalFailed /\ ConstructedWithFile) => CredentialFileOnly

\* the remote cat was run and exited non-zero, and the context exists
C8_Witness ==
  /\ RetrievalFailed
  /\ ConstructedWithFile
  /\ ctx.live
  /\ "remoteExec" \in Kinds(ev)

----------------------------------------------------------------------------
(* Inventories with a node missing *)

Complete(doc) ==
  /\ doc.InstallType.present
  /\ doc.consolePort.present
  /\ doc.serverHost.present
  /\ doc.agentHost.present

\* C9: when the Version.xml obtained lacks one of InstallType,
\* is.console.port, isf.server.host, isf.agent.host, the parse raises and no
\* context exists; and no context reports a version other than "Unknown"
\* unless version, console port, domain host and engine host are all in the
\* inventory it was built from, and are the values it holds.
C9_NoPartialInventory ==
  /\ (registry.present /\ ~Complete(registry.value)) => (last.thrown /\ ~ctx.live)
  /\ (ctx.live /\ GetCurrentVersion(Begin).val # <<"Unknown">>) =>
       /\ registry.present
       /\ Complete(registry.value)
       /\ ctx.currentVersion = registry.value.InstallType.value
       /\ ctx.tierToHosts.DOMAIN = registry.value.serverHost
       /\ ctx.tierToHosts.ENGINE = registry.value.agentHost
       /\ registry.value.consolePort.value # <<>> =>
            ctx.isConsolePort = registry.value.consolePort.value

\* a Version.xml lacking a node was obtained and the constructor raised
C9_Witness ==
  /\ last.op = "constructor"
  /\ registry.present
  /\ ~Complete(registry.value)
  /\ last.thrown

----------------------------------------------------------------------------
(* Memoization of username and password *)

\* an access of the field made now returns v and reads no file
ReturnsUnread(g, v) == ~g.thrown /\ g.val = v /\ Reads(g.ev) = 0

\* C10 as stated: once an access of username (of password) has returned,
\* every later access on the context returns that value and does not read
\* the credential file, whatever was called in between.
C10_Original ==
  ctx.live =>
    /\ resolved.username.present =>
         ReturnsUnread(GetUsername(Begin), resolved.username.value)
    /\ resolved.password.present =>
         ReturnsUnread(GetPassword(Begin), resolved.password.value)

\* an access of the field made now goes to the credential file
GoesToFile(g) == g.thrown \/ Reads(g.ev) = 1

\* an access returns what the context holds afterwards; a non-empty held
\* value is returned without reading the credential file, and an empty one
\* sends the access to the file
HeldIsReturned ==
  ctx.live =>
    /\ (last.op = "username" /\ ~last.thrown) => ctx.username = last.val
    /\ (last.op = "password" /\ ~last.thrown) => ctx.password = last.val
    /\ ctx.username # <<>> => ReturnsUnread(GetUsername(Begin), ctx.username)
    /\ ctx.password # <<>> => ReturnsUnread(GetPassword(Begin), ctx.password)
    /\ ctx.username = <<>> => GoesToFile(GetUsername(Begin))
    /\ ctx.password = <<>> => GoesToFile(GetPassword(Begin))

\* a non-empty held value is replaced by createAuthFileFromParams on the
\* platform host and by nothing else
HeldIsKept ==
  (ctx.live /\ ~(last'.op = "createAuthFileFromParams" /\ ctx.bOnHost)) =>
    /\ ctx.username # <<>> => ctx'.username = ctx.username
    /\ ctx.password # <<>> => ctx'.password = ctx.password

\* C10: once an access of username (of password) has returned a non-empty
\* value, every later access returns that value and does not read the
\* credential file, whether the file is rewritten, its location changed or
\* addRemoteConnectionDetailsToAuthFile called in between, until
\* createAuthFileFromParams runs on the platform host, which replaces both;
\* an access that found no value keeps nothing, and the next one reads the
\* file again.
C10_Memoized == []HeldIsReturned /\ [][HeldIsKept]_vars

\* a later access of username returned the first value without a read,
\* while the credential file now in place names another user
C10_Witness ==
  /\ last.op = "username"
  /\ ~last.thrown
  /\ last.val # <<>>
  /\ Reads(ev) = 0
  /\ resolved.username = Node(last.val)
  /\ Readable
  /\ ScanProperty(files[CredentialPath].data, "user", <<>>) \notin {<<>>, last.val}

----------------------------------------------------------------------------
(* The on-host flag *)

\* C11: the on-host flag is fixed when construction ends: no public
\* operation of a constructed context (an accessor, createAuthFileFromParams,
\* addRemoteConnectionDetailsToAuthFile, setting the credential file
\* location, runInfoSvrCommand, copyFile, removeFile, getRestConnection)
\* changes it, and the context stays the same object.
C11_OnHostFixed ==
  [][ctx.live => (ctx'.live /\ ctx'.bOnHost = ctx.bOnHost)]_vars

\* an on-host context that was given remote connection details and a REST
\* connection, and still runs its command locally
C11_Witness ==
  /\ ctx.live
  /\ ctx.bOnHost
  /\ ctx.restConnection.present
  /\ ctx.remoteConnectString # <<>>
  /\ last.op = "runInfoSvrCommand"
  /\ Kinds(ev) = {"localExec"}

----------------------------------------------------------------------------
(* The exit code of the encryption command *)

\* two runs of a handler that end alike
SameRun(a, b) ==
  /\ a.thrown = b.thrown
  /\ a.ctx = b.ctx
  /\ a.files = b.files
  /\ a.ev = b.ev

\* what createAuthFileFromParams does in the current state does not depend
\* on the exit code of the encryption command
ExitCodeIgnored ==
  \A username \in Usernames, password \in Passwords, file \in WritePaths, out \in EncOuts :
    SameRun(createAuthFileFromParams(Begin, username, password, file, [code |-> 0, out |-> out]),
            createAuthFileFromParams(Begin, username, password, file, [code |-> 1, out |-> out]))

\* C12: createAuthFileFromParams does not abort because the encryption
\* command exits non-zero: it ends as it would have with exit code 0, and
\* when it completes the file holds whatever the command printed on standard
\* output as its password field (also when the exit code was non-zero) and
\* the context's credential file location is the file that was given.
C12_ExitCodeIgnored ==
  /\ ctx.live => ExitCodeIgnored
  /\ (Created /\ ~last.thrown) =>
       /\ ctx.authFile = last.file
       /\ files[last.file].exists
       /\ StartsWith(files[last.file].data,
                     <<"user", EQ>> \o last.user \o <<NL, "password", EQ>>
                       \o last.enc \o <<"domain", EQ>>)

\* the encryption command failed and printed nothing; the file was written
\* with an empty password field and became the context's credential file
C12_Witness ==
  /\ Created
  /\ ~last.thrown
  /\ last.code = 1
  /\ last.enc = <<>>
  /\ "writeFile" \in Kinds(ev)
  /\ ctx.authFile = last.file
  /\ StartsWith(ScanProperty(files[last.file].data, "password", <<>>), <<"domain", EQ>>)

----------------------------------------------------------------------------
(* Provisioning of the remote copy before a remote execution *)

Positions(e, kind) == {i \in 1..Len(e) : e[i].kind = kind}

\* in a run that executed a command through the bridge: the existence check
\* came first, and every copy lies between a check and the command
CheckedThenCopiedThenRun(e) ==
  \A x \in Positions(e, "remoteExec") :
    /\ \E l \in Positions(e, "remoteLs") : l < x
    /\ \A c \in Positions(e, "remoteCopy") :
         /\ c < x
         /\ \E l \in Positions(e, "remoteLs") : l < c

\* the existence check of a run with oracle o exits with code 0
CheckFindsCopy(o) == o.lsOk /\ remoteCopy

\* whatever command is run from the current state and whatever the external
\* processes answer, the credential file is copied only when the existence
\* check exited non-zero
CopiedOnlyIfReportedAbsent ==
  \A command \in Commands, o \in Oracles :
    "remoteCopy" \in Kinds(_executeCommandRemotely(Begin, command, o).ev)
      => ~CheckFindsCopy(o)

RemoteRun == last.op = "runInfoSvrCommand" /\ "remoteExec" \in Kinds(ev)

\* a remote execution that began and ended with the remote copy present
\* made no copy
NoCopyWhilePresent ==
  (remoteCopy /\ remoteCopy' /\ ctx.live /\ ~ctx.bOnHost /\ last'.op = "runInfoSvrCommand")
    => "remoteCopy" \notin Kinds(ev')

\* C13 as stated: the order of check, copy and command, the copy made only
\* when the check reported the copy absent, and no copy made by a remote
\* execution over which the remote copy stays present.
C13_Original ==
  /\ [](("remoteExec" \in Kinds(ev)) => CheckedThenCopiedThenRun(ev))
  /\ []((ctx.live /\ ~ctx.bOnHost) => CopiedOnlyIfReportedAbsent)
  /\ [][NoCopyWhilePresent]_vars

\* C13: in every remote command execution with a configured connect string
\* the existence check of the remote copy comes before the command, the
\* credential file is copied only if that check exited non-zero, and any
\* copy comes before the command; so a remote execution whose check finds
\* the copy (the copy is present and the ls succeeds) copies nothing.
C13_CheckThenCopyThenRun ==
  /\ ("remoteExec" \in Kinds(ev)) => CheckedThenCopiedThenRun(ev)
  /\ (ctx.live /\ ~ctx.bOnHost) => CopiedOnlyIfReportedAbsent

\* a remote execution that found no copy, made one, and then ran the command
C13_Witness ==
  /\ RemoteRun
  /\ remoteCopy
  /\ \E l \in Positions(ev, "remoteLs"), c \in Positions(ev, "remoteCopy"), x \in Positions(ev, "remoteExec") :
       l < c /\ c < x

----------------------------------------------------------------------------
(* The credential file path in the command text *)

\* C14: the command string a remote execution runs contains no occurrence
\* of the local credential file path: every reference to it in the command
\* text was rewritten to the remote copy path, also when the command
\* mentions the path more than once.
C14_AllRewritten ==
  (RemoteRun /\ ctx.live /\ ~ctx.bOnHost) =>
    \A x \in Positions(ev, "remoteExec") : ctx.authFile \notin Atoms(ev[x].cmd)

\* the first reference is rewritten: a command string that still holds the
\* local path holds the remote copy path before it
C14_FirstRewritten ==
  (RemoteRun /\ ctx.live /\ ~ctx.bOnHost) =>
    \A x \in Positions(ev, "remoteExec") :
      ctx.authFile \in Atoms(ev[x].cmd) =>
        /\ RemoteCopyPath \in Atoms(ev[x].cmd)
        /\ IndexOf(ev[x].cmd, RemoteCopyPath) < IndexOf(ev[x].cmd, ctx.authFile)

----------------------------------------------------------------------------
(* Provisioning failures and the result of a remote execution *)

\* the context is off the host and resolves a connect string
ConnectConfigured ==
  /\ ctx.live
  /\ ~ctx.bOnHost
  /\ ~GetRemoteConnectionString(Begin).thrown
  /\ GetRemoteConnectionString(Begin).val # <<>>

\* the run executed the command once, as its last step, and returns what
\* that execution gave
RanOnceAndReturned(m, o) ==
  /\ ~m.thrown
  /\ Cardinality(Positions(m.ev, "remoteExec")) = 1
  /\ m.ev[Len(m.ev)].kind = "remoteExec"
  /\ m.code = o.code
  /\ m.val = o.out

\* whatever the existence check and the copy answer
RunsWhateverProvisioningGave ==
  \A command \in Commands, o \in Oracles :
    RanOnceAndReturned(_executeCommandRemotely(Begin, command, o), o)

----------------------------------------------------------------------------
(* What a failed createAuthFileFromParams leaves behind *)

CreateFails == last'.op = "createAuthFileFromParams" /\ last'.thrown

\* C15: when createAuthFileFromParams fails (the context is not on-host, or
\* resolving the domain or the engine raises), the context is left as it
\* was: cached username, cached password, stored clear password and
\* credential file location are unchanged, and no file is written.
C15_FailureLeavesContext ==
  [][CreateFails =>
       /\ ctx'.username = ctx.username
       /\ ctx'.password = ctx.password
       /\ ctx'.clearPassword = ctx.clearPassword
       /\ ctx'.authFile = ctx.authFile
       /\ files' = files]_vars

\* what does hold: a failed call writes no file and leaves the credential
\* file location alone, and off the host it leaves the cached username and
\* password alone
C15_NoFileWritten ==
  [][CreateFails =>
       /\ files' = files
       /\ "writeFile" \notin Kinds(ev')
       /\ ctx'.authFile = ctx.authFile
       /\ ~ctx.bOnHost => (ctx'.username = ctx.username /\ ctx'.password = ctx.password)]_vars

====
